---- MODULE Spec2Model ----
(***************************************************************************)
(* The load balancer of rpc-project (loadbalancer/loadbalancer.go): the    *)
(* registry (Servers, ServerKeys, RoundRobinIndex) guarded by lb.Mutex,    *)
(* one handleHeartbeat task per heartbeat connection, the MonitorHeartbeats*)
(* task, and handleRequest tasks that call getServer and dial a backend.   *)
(*                                                                         *)
(* Granularity: a critical section that makes one access to the registry  *)
(* (the refresh of a timestamp, getServer) is one step, Lock and Unlock    *)
(* included; a critical section that writes the map and then the key slice *)
(* (a first heartbeat, an eviction) is one step per write.  sync.Mutex has *)
(* no owner: Unlock by any task frees it, and Unlock of a free mutex is a  *)
(* fatal error that ends the process.  Time is counted in ticks; a         *)
(* timestamp is kept as the time elapsed since it was taken, saturated     *)
(* just above Timeout.                                                     *)
(***************************************************************************)
EXTENDS Integers, Sequences, FiniteSets, TLC

\* ------------------------------------------------------------------ bounds
NumConns == 2       \* heartbeat connections (= heartbeat addresses) ever opened
NumReqs == 1        \* request handler tasks alive at the same time
MaxDials == 2       \* dial attempts followed for one client request
MaxOff == 3         \* JSON numbers of the relay: 0..MaxOff and 2^53 + 0..MaxOff
MaxBeats == 3       \* heartbeats a backend writes before the model stops counting
MaxServed == 2      \* connections a backend accepts before the model stops counting
Timeout == 1        \* lb.Timeout; one tick of the clock is one lb.Timeout

Conns == 1..NumConns
Stranger == NumConns + 1   \* one more heartbeat connection, for the specifications with a third peer
AllConns == Conns \cup {Stranger}
Reqs == 1..NumReqs
MaxLog == NumConns + 1   \* getServer results remembered since the last membership change

\* ------------------------------------------------------------------ tasks
HbTask(c) == <<"hb", c>>
ReqTask(r) == <<"req", r>>
MonTask == <<"mon", 0>>
Free == <<"free", 0>>

\* ------------------------------------------------------------------ values
NoPort == "absent"           \* the key "port" is not in the map
StrPort == "9001"            \* request["port"] is a JSON string
NumPort == "number"          \* request["port"] is a JSON number: port.(string) panics
PortVals == {NoPort, StrPort, NumPort}

\* A decoded JSON object of a heartbeat connection, reduced to the two keys
\* the handler reads: is "heartbeat" present, and what "port" holds.
Msgs == [hb : BOOLEAN, port : PortVals]
NilRequest == [hb |-> FALSE, port |-> NoPort]

NoFatal == "none"
FatalUnlock == "sync: unlock of unlocked mutex"
FatalNil == "nil pointer dereference"
FatalAssert == "interface conversion"

NoConn == 0
NoReply == "none"
NoEnvelope == [type |-> "none"]

VARIABLES
    Servers,          \* lb.Servers: heartbeat address -> ServerInfo
    ServerKeys,       \* lb.ServerKeys
    RoundRobinIndex,  \* lb.RoundRobinIndex
    Mutex,            \* lb.Mutex: Free, or the task whose Lock succeeded last
    fatal,            \* NoFatal, or the runtime error that ended the process
    hpc,              \* handleHeartbeat(c): position of the task
    request,          \* handleHeartbeat(c): the decode target `request`
    closed,           \* heartbeat connections closed by the load balancer
    mpc,              \* MonitorHeartbeats: position of the task
    sleepLeft,        \* MonitorHeartbeats: ticks left of time.Sleep(lb.Timeout)
    toVisit,          \* MonitorHeartbeats: entries the range loop still has to produce
    cur,              \* MonitorHeartbeats: the entry being removed
    rpc,              \* handleRequest(r): position of the task
    selected,         \* handleRequest(r): the server returned by getServer
    dials,            \* handleRequest(r): dial attempts made for this request
    nAtStart,         \* handleRequest(r): len(ServerKeys) at its first getServer
    reply,            \* handleRequest(r): the envelope written to the client
    logging,          \* history: what is recorded, "off", "dispatch" or "sweep" (fixed by Init)
    dispatchLog,      \* history: keys returned by getServer since ServerKeys last changed
    logStart,         \* history: RoundRobinIndex before the first call of dispatchLog
    keysAtLock,       \* history: ServerKeys when the sweep under way took the lock
    relayStage,       \* relay of one request: how far handleRequest has come
    clientSent,       \* relay: the envelope the client wrote
    backendGot,       \* relay: the envelope relayJSON wrote to the backend
    backendSent,      \* relay: the envelope the backend wrote
    clientGot,        \* relay: the envelope written to the client
    mainpc,           \* main: "run", "grace" after the signal, "exited"
    written,          \* handleRequest(r): envelopes written to the client connection
    openCount,        \* handleRequest(r): backend connections dialled and not yet closed
    prevKey,          \* history: the key the last getServer call returned
    prevKeys,         \* history: ServerKeys as that call read it
    lastMsg,          \* history: the object handleHeartbeat(c) decoded last
    serverMain,       \* backend main: "select", "cancel", "wait", "close", "stopped"
    sendHb,           \* backend SendHeartbeats: "dial", "first", "loop", "signal", "returned"
    stopChan,         \* backend: is a signal waiting in the channel stop
    lbDownSent,       \* backend: values received from the channel lbDown
    ctxCancelled,     \* backend: has cancel() been called
    lnOpen,           \* backend: is the listener open
    acceptLoop,       \* backend accept loop: "accept" or "returned"
    beats,            \* backend: heartbeats written
    served,           \* backend: connections accepted
    stubpc,           \* client stub: "idle", "dial", "encode", "decode", "check", "returned", "panicked"
    stubRequest,      \* client stub: the envelope callRPC is to send
    stubSent,         \* client stub: has callRPC written the request
    dialResult,       \* client stub: what tls.Dial returned
    stubResponse,     \* client stub: the map callRPC returns
    stubReturn        \* client stub: what the method stub returns

regVars == <<Servers, ServerKeys, RoundRobinIndex>>
hbVars == <<hpc, request>>
monVars == <<mpc, sleepLeft, toVisit, cur>>
relayVars == <<relayStage, clientSent, backendGot, backendSent, clientGot>>
handlerVars == <<written, openCount>>
reqVars == <<rpc, selected, dials, nAtStart, reply, relayVars, handlerVars>>
prevVars == <<prevKey, prevKeys>>
msgVars == <<lastMsg>>
logVars == <<logging, dispatchLog, logStart, keysAtLock, prevVars, msgVars>>
mainVars == <<mainpc>>
backendVars == <<serverMain, sendHb, stopChan, lbDownSent, ctxCancelled, lnOpen,
                 acceptLoop, beats, served>>
clientVars == <<stubpc, stubRequest, stubSent, dialResult, stubResponse, stubReturn>>
sysVars == <<mainVars, backendVars, clientVars>>
vars == <<Servers, ServerKeys, RoundRobinIndex, Mutex, fatal, hpc, request, closed,
          mpc, sleepLeft, toVisit, cur, rpc, selected, dials, nAtStart,
          reply, logging, dispatchLog, logStart, keysAtLock,
          relayStage, clientSent, backendGot, backendSent, clientGot, mainpc,
          written, openCount, prevKey, prevKeys, lastMsg,
          serverMain, sendHb, stopChan, lbDownSent, ctxCancelled, lnOpen,
          acceptLoop, beats, served,
          stubpc, stubRequest, stubSent, dialResult, stubResponse, stubReturn>>

\* ------------------------------------------------------------------ helpers
Range(s) == {s[i] : i \in 1..Len(s)}

NoDuplicates(s) == \A i, j \in 1..Len(s) : i # j => s[i] # s[j]

\* append(lb.ServerKeys[:i], lb.ServerKeys[i+1:]...) for the first i with
\* ServerKeys[i] = key; the slice is left alone when no element matches.
RemoveKey(keys, key) ==
    IF key \notin Range(keys) THEN keys
    ELSE LET i == CHOOSE k \in 1..Len(keys) :
                     keys[k] = key /\ \A j \in 1..(k - 1) : keys[j] # key
         IN SubSeq(keys, 1, i - 1) \o SubSeq(keys, i + 1, Len(keys))

\* time.Since(server.LastHeartbeat) > lb.Timeout
Stale(server) == server.sinceHeartbeat > Timeout

\* conn.RemoteAddr().String() of heartbeat connection c, as a sequence of
\* pieces in which every colon is a piece ":" of its own.  Connections with
\* an odd number come from an IPv4 peer ("10.0.0.c:4000c"), those with an
\* even number from an IPv6 peer ("[fe80::c]:4000c").
Digit(c) == <<"1", "2", "3", "4", "5", "6", "7", "8", "9">>[c]

PeerHost(c) ==
    IF c % 2 = 1
    THEN <<"10.0.0.", Digit(c)>>
    ELSE <<"[fe80", ":", ":", Digit(c), "]">>

RemoteAddr(c) == PeerHost(c) \o <<":", "4000", Digit(c)>>

\* strings.Split(address, ":")[0]: the pieces before the first colon.
RECURSIVE SplitFirst(_)
SplitFirst(addr) ==
    IF addr = <<>> \/ Head(addr) = ":"
    THEN <<>>
    ELSE <<Head(addr)>> \o SplitFirst(Tail(addr))

\* servingAddress := strings.Split(address, ":")[0]; servingAddress += ":" + port.(string)
ServingAddressOf(c, port) == SplitFirst(RemoteAddr(c)) \o <<":", port>>

\* &ServerInfo{...} of a first heartbeat
NewServer(c, port) ==
    [HeartbeatAddress |-> c,
     ServingAddress |-> ServingAddressOf(c, port),
     sinceHeartbeat |-> 0,
     IsHealthy |-> TRUE,
     heartBeatConn |-> c]

\* json.Decoder.Decode(&request) into the map kept from the previous message:
\* keys of the new object are set, keys it lacks keep their old value.
Decode(old, m) ==
    [hb |-> old.hb \/ m.hb,
     port |-> IF m.port # NoPort THEN m.port ELSE old.port]

\* getServer: "if lb.RoundRobinIndex >= len(lb.ServerKeys) { lb.RoundRobinIndex = 0 }"
WrapIndex(idx, n) == IF idx >= n THEN 0 ELSE idx

\* A getServer that forgets "lb.RoundRobinIndex++".
AdvanceIndexForgotten(idx) == idx

\* getServer: "lb.RoundRobinIndex++"
AdvanceIndex(idx) == idx + 1

\* lb.Mutex.Unlock(): frees the mutex whoever locked it; fatal when it is free.
Unlock ==
    IF Mutex = Free
    THEN fatal' = FatalUnlock /\ Mutex' = Mutex
    ELSE Mutex' = Free /\ fatal' = fatal

\* The process runs: no runtime error has ended it and main has not returned.
Alive == fatal = NoFatal /\ mainpc # "exited"

\* The history of getServer results starts again when ServerKeys changes.
ResetLog ==
    /\ dispatchLog' = <<>>
    /\ logStart' = IF logging = "dispatch" THEN RoundRobinIndex ELSE logStart
    /\ UNCHANGED <<logging, keysAtLock, prevVars, msgVars, sysVars>>

\* The client before a method stub is called.
ClientInit ==
    /\ stubpc = "idle"
    /\ stubRequest = NoEnvelope
    /\ stubSent = FALSE
    /\ dialResult = "none"
    /\ stubResponse = NoEnvelope
    /\ stubReturn = NoEnvelope

\* The backend server when its main has started the accept loop and
\* SendHeartbeats and waits in its select.
BackendInit ==
    /\ serverMain = "select"
    /\ sendHb = "dial"
    /\ stopChan = FALSE
    /\ lbDownSent = 0
    /\ ctxCancelled = FALSE
    /\ lnOpen = TRUE
    /\ acceptLoop = "accept"
    /\ beats = 0
    /\ served = 0

\* main before any signal; no handler has written or dialled anything and
\* getServer has not been called.
SysInit ==
    /\ mainpc = "run"
    /\ written = [r \in Reqs |-> 0]
    /\ openCount = [r \in Reqs |-> 0]
    /\ prevKey = NoConn
    /\ prevKeys = <<>>
    /\ lastMsg = [c \in AllConns |-> NilRequest]
    /\ BackendInit
    /\ ClientInit

Init ==
    /\ Servers = <<>>
    /\ ServerKeys = <<>>
    /\ RoundRobinIndex = 0
    /\ Mutex = Free
    /\ fatal = NoFatal
    /\ hpc = [c \in AllConns |-> "idle"]
    /\ request = [c \in AllConns |-> NilRequest]
    /\ closed = {}
    /\ mpc = "sleep"
    /\ sleepLeft = Timeout
    /\ toVisit = {}
    /\ cur = NoConn
    /\ rpc = [r \in Reqs |-> "idle"]
    /\ selected = [r \in Reqs |-> NoConn]
    /\ dials = [r \in Reqs |-> 0]
    /\ nAtStart = [r \in Reqs |-> 0]
    /\ reply = [r \in Reqs |-> NoReply]
    /\ logging = "off"
    /\ dispatchLog = <<>>
    /\ logStart = 0
    /\ keysAtLock = <<>>
    /\ relayStage = "off"
    /\ clientSent = NoEnvelope
    /\ backendGot = NoEnvelope
    /\ backendSent = NoEnvelope
    /\ clientGot = NoEnvelope
    /\ SysInit

\* The same start, with the history of getServer results recorded.
InitLogging ==
    /\ Servers = <<>>
    /\ ServerKeys = <<>>
    /\ RoundRobinIndex = 0
    /\ Mutex = Free
    /\ fatal = NoFatal
    /\ hpc = [c \in AllConns |-> "idle"]
    /\ request = [c \in AllConns |-> NilRequest]
    /\ closed = {}
    /\ mpc = "sleep"
    /\ sleepLeft = Timeout
    /\ toVisit = {}
    /\ cur = NoConn
    /\ rpc = [r \in Reqs |-> "idle"]
    /\ selected = [r \in Reqs |-> NoConn]
    /\ dials = [r \in Reqs |-> 0]
    /\ nAtStart = [r \in Reqs |-> 0]
    /\ reply = [r \in Reqs |-> NoReply]
    /\ logging = "dispatch"
    /\ dispatchLog = <<>>
    /\ logStart = 0
    /\ keysAtLock = <<>>
    /\ relayStage = "off"
    /\ clientSent = NoEnvelope
    /\ backendGot = NoEnvelope
    /\ backendSent = NoEnvelope
    /\ clientGot = NoEnvelope
    /\ SysInit

\* ------------------------------------------------------- handleHeartbeat
\* ListenForHeartbeats: ln.Accept() and "go lb.handleHeartbeat(conn)".
HbAccept(c) ==
    /\ Alive
    /\ hpc[c] = "idle"
    /\ hpc' = [hpc EXCEPT ![c] = "decode"]
    /\ request' = [request EXCEPT ![c] = NilRequest]
    /\ UNCHANGED <<regVars, Mutex, fatal, closed, monVars, reqVars, logVars, sysVars>>

\* HbDecodeError as it would be if the handler took its entry out of the
\* registry when its connection fails.
HbDecodeErrorDeregisters(c) ==
    /\ Alive
    /\ hpc[c] = "decode"
    /\ hpc' = [hpc EXCEPT ![c] = "done"]
    /\ request' = [request EXCEPT ![c] = NilRequest]
    /\ Servers' = [a \in DOMAIN Servers \ {c} |-> Servers[a]]
    /\ ServerKeys' = SelectSeq(ServerKeys, LAMBDA k : k # c)
    /\ UNCHANGED <<RoundRobinIndex, Mutex, fatal, closed, monVars, reqVars, logVars, sysVars>>

\* decoder.Decode(&request) returns an error (EOF, malformed JSON, read on
\* a closed connection): the handler returns, whatever the mutex holds.
HbDecodeError(c) ==
    /\ Alive
    /\ hpc[c] = "decode"
    /\ hpc' = [hpc EXCEPT ![c] = "done"]
    /\ request' = [request EXCEPT ![c] = NilRequest]
    /\ UNCHANGED <<regVars, Mutex, fatal, closed, monVars, reqVars, logVars, sysVars>>

\* decoder.Decode(&request) delivers the object m.  With "heartbeat" in the
\* map the handler goes on to lb.Mutex.Lock(); without it the else branch
\* logs and falls through to lb.Mutex.Unlock() at the end of the loop body.
HbDecode(c, m) ==
    /\ Alive
    /\ hpc[c] = "decode"
    /\ request' = [request EXCEPT ![c] = Decode(request[c], m)]
    /\ lastMsg' = IF logging = "message" THEN [lastMsg EXCEPT ![c] = m] ELSE lastMsg
    /\ IF request'[c].hb
       THEN /\ hpc' = [hpc EXCEPT ![c] = "lock"]
            /\ UNCHANGED <<Mutex, fatal>>
       ELSE /\ Unlock
            /\ UNCHANGED hpc
    /\ UNCHANGED <<regVars, closed, monVars, reqVars, logging, dispatchLog, logStart,
                   keysAtLock, prevVars, sysVars>>

\* HbRefresh as it would be if the refresh derived the serving address
\* again from the message at hand.
HbRefreshRewritesAddress(c) ==
    /\ Alive
    /\ hpc[c] = "lock"
    /\ Mutex = Free
    /\ c \in DOMAIN Servers
    /\ Servers' = [Servers EXCEPT ![c].sinceHeartbeat = 0, ![c].IsHealthy = TRUE,
                                  ![c].ServingAddress = ServingAddressOf(c, request[c].port)]
    /\ hpc' = [hpc EXCEPT ![c] = "decode"]
    /\ UNCHANGED <<ServerKeys, RoundRobinIndex, Mutex, fatal, request, closed, monVars,
                   reqVars, logVars, sysVars>>

\* lb.Mutex.Lock() succeeds, address already in lb.Servers: the timestamp
\* is refreshed and lb.Mutex.Unlock() ends the loop body.
HbRefresh(c) ==
    /\ Alive
    /\ hpc[c] = "lock"
    /\ Mutex = Free
    /\ c \in DOMAIN Servers
    /\ Servers' = [Servers EXCEPT ![c].sinceHeartbeat = 0, ![c].IsHealthy = TRUE]
    /\ hpc' = [hpc EXCEPT ![c] = "decode"]
    /\ UNCHANGED <<ServerKeys, RoundRobinIndex, Mutex, fatal, request, closed, monVars,
                   reqVars, logVars, sysVars>>

\* lb.Mutex.Lock() succeeds, address not in lb.Servers, no "port" in the
\* map: log and "continue", which skips lb.Mutex.Unlock().
HbNoPort(c) ==
    /\ Alive
    /\ hpc[c] = "lock"
    /\ Mutex = Free
    /\ c \notin DOMAIN Servers
    /\ request[c].port = NoPort
    /\ Mutex' = HbTask(c)
    /\ hpc' = [hpc EXCEPT ![c] = "decode"]
    /\ UNCHANGED <<regVars, fatal, request, closed, monVars, reqVars, logVars, sysVars>>

\* lb.Mutex.Lock() succeeds, address not in lb.Servers, "port" holds a
\* value that is no string: port.(string) panics.
HbBadPort(c) ==
    /\ Alive
    /\ hpc[c] = "lock"
    /\ Mutex = Free
    /\ c \notin DOMAIN Servers
    /\ request[c].port = NumPort
    /\ Mutex' = HbTask(c)
    /\ fatal' = FatalAssert
    /\ UNCHANGED <<regVars, hbVars, closed, monVars, reqVars, logVars, sysVars>>

\* lb.Mutex.Lock() succeeds, address not in lb.Servers, "port" is a string:
\* lb.Servers[address] = server.  A range loop over the map that is under
\* way may or may not produce the new entry.
HbInsert(c) ==
    /\ Alive
    /\ hpc[c] = "lock"
    /\ Mutex = Free
    /\ c \notin DOMAIN Servers
    /\ request[c].port = StrPort
    /\ Mutex' = HbTask(c)
    /\ Servers' = [a \in DOMAIN Servers \cup {c} |->
                     IF a = c THEN NewServer(c, request[c].port) ELSE Servers[a]]
    /\ hpc' = [hpc EXCEPT ![c] = "append"]
    /\ toVisit' \in IF mpc = "range" THEN {toVisit, toVisit \cup {c}} ELSE {toVisit}
    /\ UNCHANGED <<ServerKeys, RoundRobinIndex, fatal, request, closed, mpc, sleepLeft,
                   cur, reqVars, logVars, sysVars>>

\* lb.ServerKeys = append(lb.ServerKeys, address), and lb.Mutex.Unlock()
\* at the end of the loop body.
HbAppend(c) ==
    /\ Alive
    /\ hpc[c] = "append"
    /\ ServerKeys' = Append(ServerKeys, c)
    /\ Unlock
    /\ hpc' = [hpc EXCEPT ![c] = "decode"]
    /\ ResetLog
    /\ UNCHANGED <<Servers, RoundRobinIndex, request, closed, monVars, reqVars>>

\* ------------------------------------------------------ MonitorHeartbeats
\* time.Sleep(lb.Timeout) is over and lb.Mutex.Lock() succeeds; the range
\* loop over lb.Servers starts.
MonLock ==
    /\ Alive
    /\ mpc = "sleep"
    /\ sleepLeft = 0
    /\ Mutex = Free
    /\ Mutex' = MonTask
    /\ mpc' = "range"
    /\ toVisit' = DOMAIN Servers
    /\ keysAtLock' = IF logging = "sweep" THEN ServerKeys ELSE keysAtLock
    /\ UNCHANGED <<regVars, fatal, hbVars, closed, sleepLeft, cur, reqVars, logging, sysVars, prevVars, msgVars,
                   dispatchLog, logStart>>

\* One iteration of "for _, server := range lb.Servers".  A stale entry is
\* marked unhealthy, its connection closed and its key deleted from the map.
MonVisit(a) ==
    /\ Alive
    /\ mpc = "range"
    /\ a \in toVisit
    /\ a \in DOMAIN Servers
    /\ toVisit' = toVisit \ {a}
    /\ IF Stale(Servers[a])
       THEN /\ closed' = closed \cup {Servers[a].heartBeatConn}
            /\ Servers' = [b \in DOMAIN Servers \ {a} |-> Servers[b]]
            /\ cur' = a
            /\ mpc' = "rmkey"
       ELSE UNCHANGED <<closed, Servers, cur, mpc>>
    /\ UNCHANGED <<ServerKeys, RoundRobinIndex, Mutex, fatal, hbVars, sleepLeft,
                   reqVars, logVars, sysVars>>

\* The inner loop that removes server.HeartbeatAddress from lb.ServerKeys.
MonRemoveKey ==
    /\ Alive
    /\ mpc = "rmkey"
    /\ ServerKeys' = RemoveKey(ServerKeys, cur)
    /\ mpc' = "range"
    /\ cur' = NoConn
    /\ ResetLog
    /\ UNCHANGED <<Servers, RoundRobinIndex, Mutex, fatal, hbVars, closed, sleepLeft,
                   toVisit, reqVars>>

\* The range loop is over: lb.Mutex.Unlock(), and sleep again.
MonUnlock ==
    /\ Alive
    /\ mpc = "range"
    /\ toVisit \cap DOMAIN Servers = {}
    /\ Unlock
    /\ mpc' = "sleep"
    /\ sleepLeft' = Timeout
    /\ toVisit' = {}
    /\ keysAtLock' = <<>>
    /\ UNCHANGED <<regVars, hbVars, closed, cur, reqVars, logging, dispatchLog, logStart,
                   sysVars, prevVars, msgVars>>

\* One tick of time passes.
Tick ==
    /\ Alive
    /\ Servers' = [a \in DOMAIN Servers |->
                     [Servers[a] EXCEPT !.sinceHeartbeat =
                        IF @ > Timeout THEN @ ELSE @ + 1]]
    /\ sleepLeft' = IF mpc = "sleep" /\ sleepLeft > 0 THEN sleepLeft - 1 ELSE sleepLeft
    /\ UNCHANGED <<ServerKeys, RoundRobinIndex, Mutex, fatal, hbVars, closed, mpc,
                   toVisit, cur, reqVars, logVars, sysVars>>

\* ---------------------------------------------------------- handleRequest
\* The envelopes handleRequest writes to the client.
ErrNoServerLowercase == "no server available"
ErrNoServer == "No server available"
ErrConnect == "Error in connecting to server"
Result == "response of the backend"

\* What net.Dial("tcp", server.ServingAddress) returns.
DialOutcomes == {"connected", "OpError", "other error"}

\* ListenForRequests: ln.Accept() and "go lb.handleRequest(conn)"; the
\* handler decodes the client's request and reaches the label getServer.
ReqAccept(r) ==
    /\ Alive
    /\ rpc[r] = "idle"
    /\ rpc' = [rpc EXCEPT ![r] = "getServer"]
    /\ UNCHANGED <<regVars, Mutex, fatal, hbVars, closed, monVars, selected, dials,
                   nAtStart, reply, logVars, relayVars, sysVars, handlerVars>>

\* The key getServer reads: lb.ServerKeys[lb.RoundRobinIndex] after the wrap.
SelectedKey(keys, idx) == keys[WrapIndex(idx, Len(keys)) + 1]

\* History: getServer has returned the server of `key`.  The log keeps the
\* last MaxLog results; logStart is the index the first of them was read at.
Record(key) ==
    /\ UNCHANGED <<logging, keysAtLock, msgVars, sysVars>>
    /\ IF logging = "rotation"
       THEN prevKey' = key /\ prevKeys' = ServerKeys
       ELSE UNCHANGED prevVars
    /\ IF logging # "dispatch"
       THEN UNCHANGED <<dispatchLog, logStart>>
       ELSE IF Len(dispatchLog) < MaxLog
            THEN /\ dispatchLog' = Append(dispatchLog, key)
                 /\ UNCHANGED logStart
            ELSE /\ dispatchLog' = Append(Tail(dispatchLog), key)
                 /\ logStart' = WrapIndex(logStart, Len(ServerKeys)) + 1

\* getServer has returned a server and handleRequest goes on to dial it.
Dispatch(r, key) ==
    /\ selected' = [selected EXCEPT ![r] = key]
    /\ rpc' = [rpc EXCEPT ![r] = "dial"]
    /\ nAtStart' = [nAtStart EXCEPT ![r] = IF dials[r] = 0 THEN Len(ServerKeys) ELSE @]
    /\ Record(key)
    /\ UNCHANGED <<dials, reply, handlerVars>>

\* getServer, from lb.Mutex.Lock() to the deferred lb.Mutex.Unlock().  With
\* no key it returns nil and handleRequest answers "No server available".
\* Otherwise it wraps the index, reads lb.Servers[key], advances the index
\* and logs server.ServingAddress, which dereferences nil when the map has
\* no such key.
GetServer(r) ==
    /\ Alive
    /\ rpc[r] = "getServer"
    /\ Mutex = Free
    /\ IF Len(ServerKeys) = 0
       THEN /\ rpc' = [rpc EXCEPT ![r] = "done"]
            /\ reply' = [reply EXCEPT ![r] = ErrNoServer]
            /\ written' = [written EXCEPT ![r] = @ + 1]
            /\ UNCHANGED <<RoundRobinIndex, fatal, selected, dials, nAtStart, logVars, sysVars,
                           openCount>>
       ELSE LET key == SelectedKey(ServerKeys, RoundRobinIndex) IN
            /\ RoundRobinIndex' = AdvanceIndex(WrapIndex(RoundRobinIndex, Len(ServerKeys)))
            /\ IF key \notin DOMAIN Servers
               THEN /\ fatal' = FatalNil
                    /\ UNCHANGED <<reqVars, logVars, sysVars>>
               ELSE /\ Dispatch(r, key)
                    /\ UNCHANGED fatal
    /\ UNCHANGED <<Servers, ServerKeys, Mutex, hbVars, closed, monVars, relayVars>>

\* Dial as it would be if every dial error sent the handler back to the
\* label getServer.
DialRetriesEveryError(r, outcome) ==
    /\ Alive
    /\ rpc[r] = "dial"
    /\ dials[r] < MaxDials
    /\ dials' = [dials EXCEPT ![r] = @ + 1]
    /\ IF outcome # "connected"
       THEN /\ rpc' = [rpc EXCEPT ![r] = "getServer"]
            /\ UNCHANGED <<reply, handlerVars>>
       ELSE /\ rpc' = [rpc EXCEPT ![r] = "done"]
            /\ reply' = [reply EXCEPT ![r] = Result]
            /\ written' = [written EXCEPT ![r] = @ + 1]
            /\ openCount' = [openCount EXCEPT ![r] = @ + 1]
    /\ UNCHANGED <<regVars, Mutex, fatal, hbVars, closed, monVars, selected, nAtStart,
                   logVars, relayVars, sysVars>>

\* net.Dial to the selected server.  A *net.OpError sends the handler back
\* to the label getServer; any other error is reported to the client; a
\* connection relays the request and the backend's response.
Dial(r, outcome) ==
    /\ Alive
    /\ rpc[r] = "dial"
    /\ dials[r] < MaxDials
    /\ dials' = [dials EXCEPT ![r] = @ + 1]
    /\ IF outcome = "OpError"
       THEN /\ rpc' = [rpc EXCEPT ![r] = "getServer"]
            /\ UNCHANGED <<reply, handlerVars>>
       ELSE /\ rpc' = [rpc EXCEPT ![r] = "done"]
            /\ reply' = [reply EXCEPT ![r] =
                           IF outcome = "connected" THEN Result ELSE ErrConnect]
            /\ written' = [written EXCEPT ![r] = @ + 1]
            /\ openCount' = [openCount EXCEPT ![r] =
                               IF outcome = "connected" THEN @ + 1 ELSE @]
    /\ UNCHANGED <<regVars, Mutex, fatal, hbVars, closed, monVars, selected, nAtStart,
                   logVars, relayVars, sysVars>>

\* ReqReturn as it would be without "defer serverConn.Close()".
ReqReturnLeavesOpen(r) ==
    /\ Alive
    /\ rpc[r] = "done"
    /\ rpc' = [rpc EXCEPT ![r] = "idle"]
    /\ selected' = [selected EXCEPT ![r] = NoConn]
    /\ dials' = [dials EXCEPT ![r] = 0]
    /\ nAtStart' = [nAtStart EXCEPT ![r] = 0]
    /\ reply' = [reply EXCEPT ![r] = NoReply]
    /\ written' = [written EXCEPT ![r] = 0]
    /\ UNCHANGED <<regVars, Mutex, fatal, hbVars, closed, monVars, logVars, relayVars, sysVars,
                   openCount>>

\* handleRequest returns; the deferred serverConn.Close() and conn.Close()
\* end the backend connection, if one was dialled, and the client connection.
ReqReturn(r) ==
    /\ Alive
    /\ rpc[r] = "done"
    /\ rpc' = [rpc EXCEPT ![r] = "idle"]
    /\ selected' = [selected EXCEPT ![r] = NoConn]
    /\ dials' = [dials EXCEPT ![r] = 0]
    /\ nAtStart' = [nAtStart EXCEPT ![r] = 0]
    /\ reply' = [reply EXCEPT ![r] = NoReply]
    /\ written' = [written EXCEPT ![r] = 0]
    /\ openCount' = [openCount EXCEPT ![r] = 0]
    /\ UNCHANGED <<regVars, Mutex, fatal, hbVars, closed, monVars, logVars, relayVars, sysVars>>

\* ------------------------------------------------------------ specification
\* The heartbeat side: the handleHeartbeat tasks, MonitorHeartbeats, time.
HbNext ==
    \/ \E c \in Conns : HbAccept(c)
    \/ \E c \in Conns : HbDecodeError(c)
    \/ \E c \in Conns, m \in Msgs : HbDecode(c, m)
    \/ \E c \in Conns : HbRefresh(c)
    \/ \E c \in Conns : HbNoPort(c)
    \/ \E c \in Conns : HbBadPort(c)
    \/ \E c \in Conns : HbInsert(c)
    \/ \E c \in Conns : HbAppend(c)
    \/ MonLock
    \/ \E a \in Conns : MonVisit(a)
    \/ MonRemoveKey
    \/ MonUnlock
    \/ Tick

\* The request side: the handleRequest tasks.
ReqNext ==
    \/ \E r \in Reqs : ReqAccept(r)
    \/ \E r \in Reqs : GetServer(r)
    \/ \E r \in Reqs, o \in DialOutcomes : Dial(r, o)
    \/ \E r \in Reqs : ReqReturn(r)

Next == HbNext \/ ReqNext

\* The whole load balancer.
Spec == Init /\ [][Next]_vars

\* The heartbeat side alone: no client connects.
HbSpec == Init /\ [][HbNext]_vars

\* The scheduling of the heartbeat side: time passes, a task that can take
\* a step takes it, and a task that waits in Lock gets the mutex if it is
\* free again and again.  The arrival of messages and of connections is up
\* to the backends and has no fairness.
HbFairness ==
    /\ WF_vars(Tick)
    /\ SF_vars(MonLock)
    /\ WF_vars(\E a \in Conns : MonVisit(a))
    /\ WF_vars(MonRemoveKey)
    /\ WF_vars(MonUnlock)
    /\ \A c \in Conns :
          /\ SF_vars(HbRefresh(c) \/ HbNoPort(c) \/ HbBadPort(c) \/ HbInsert(c))
          /\ WF_vars(HbAppend(c))

HbFairSpec == HbSpec /\ HbFairness

\* The heartbeat protocol as the backend speaks it: every object carries
\* "heartbeat", and "port", when present, is a string.
Heartbeats == {m \in Msgs : m.hb /\ m.port # NumPort}

HbHeartbeat(c) == \E m \in Heartbeats : HbDecode(c, m)

\* The load balancer with backends that speak the heartbeat protocol, the
\* results of getServer recorded.
DispatchNext ==
    \/ \E c \in Conns : HbAccept(c)
    \/ \E c \in Conns : HbDecodeError(c)
    \/ \E c \in Conns : HbHeartbeat(c)
    \/ \E c \in Conns : HbRefresh(c)
    \/ \E c \in Conns : HbNoPort(c)
    \/ \E c \in Conns : HbInsert(c)
    \/ \E c \in Conns : HbAppend(c)
    \/ MonLock
    \/ \E a \in Conns : MonVisit(a)
    \/ MonRemoveKey
    \/ MonUnlock
    \/ Tick
    \/ ReqNext

DispatchSpec == InitLogging /\ [][DispatchNext]_vars

\* Any traffic with string ports on the heartbeat port, and requests whose
\* dial connects: the messages of StringPortMsgs include the one without
\* "heartbeat" and the heartbeat without "port".
StringPortMsgs == {m \in Msgs : m.port # NumPort}

HbStringPort(c) == \E m \in StringPortMsgs : HbDecode(c, m)

RaceNext ==
    \/ \E c \in Conns : HbAccept(c)
    \/ \E c \in Conns : HbDecodeError(c)
    \/ \E c \in Conns : HbStringPort(c)
    \/ \E c \in Conns : HbRefresh(c)
    \/ \E c \in Conns : HbNoPort(c)
    \/ \E c \in Conns : HbInsert(c)
    \/ \E c \in Conns : HbAppend(c)
    \/ MonLock
    \/ \E a \in Conns : MonVisit(a)
    \/ MonRemoveKey
    \/ MonUnlock
    \/ Tick
    \/ \E r \in Reqs : ReqAccept(r)
    \/ \E r \in Reqs : GetServer(r)
    \/ \E r \in Reqs : Dial(r, "connected")
    \/ \E r \in Reqs : ReqReturn(r)

RaceSpec == Init /\ [][RaceNext]_vars

\* The same with the history of getServer's results recorded.
RaceLoggingSpec == InitLogging /\ [][RaceNext]_vars

\* The same start, with the order of ServerKeys recorded at each sweep.
InitSweepLogging ==
    /\ Servers = <<>>
    /\ ServerKeys = <<>>
    /\ RoundRobinIndex = 0
    /\ Mutex = Free
    /\ fatal = NoFatal
    /\ hpc = [c \in AllConns |-> "idle"]
    /\ request = [c \in AllConns |-> NilRequest]
    /\ closed = {}
    /\ mpc = "sleep"
    /\ sleepLeft = Timeout
    /\ toVisit = {}
    /\ cur = NoConn
    /\ rpc = [r \in Reqs |-> "idle"]
    /\ selected = [r \in Reqs |-> NoConn]
    /\ dials = [r \in Reqs |-> 0]
    /\ nAtStart = [r \in Reqs |-> 0]
    /\ reply = [r \in Reqs |-> NoReply]
    /\ logging = "sweep"
    /\ dispatchLog = <<>>
    /\ logStart = 0
    /\ keysAtLock = <<>>
    /\ relayStage = "off"
    /\ clientSent = NoEnvelope
    /\ backendGot = NoEnvelope
    /\ backendSent = NoEnvelope
    /\ clientGot = NoEnvelope
    /\ SysInit

\* Registration and sweeps alone, with that record.
HbSweepSpec == InitSweepLogging /\ [][HbNext]_vars

\* ------------------------------------------------------------------ claims
\* The tasks that are between a Lock and the Unlock that follows it in
\* their code, with registry accesses still to make.
InCS(t) ==
    \/ \E c \in Conns : t = HbTask(c) /\ hpc[c] = "append"
    \/ t = MonTask /\ mpc \in {"range", "rmkey"}

Tasks == {HbTask(c) : c \in Conns} \cup {ReqTask(r) : r \in Reqs} \cup {MonTask}

\* C1: whenever the registry lock is free, ServerKeys and the keys of
\* Servers are the same set and ServerKeys holds no key twice.
C1_KeysMatchMap ==
    (Alive /\ Mutex = Free) =>
        (Range(ServerKeys) = DOMAIN Servers /\ NoDuplicates(ServerKeys))

\* C2: at most one task is inside a critical section of the registry, a
\* task inside one holds the lock, and the lock is never unlocked while free.
C2_MutualExclusion ==
    /\ Cardinality({t \in Tasks : InCS(t)}) <= 1
    /\ \A t \in Tasks : InCS(t) /\ Alive => Mutex = t
    /\ fatal # FatalUnlock

\* C7: a heartbeat without port from an address that is not registered
\* leaves the registry as it was and the lock released, and the handler
\* reads the next message.
C7_NoPortReleasesLock ==
    [][\A c \in Conns :
          (hpc[c] = "lock" /\ c \notin DOMAIN Servers /\ request[c].port = NoPort
             /\ hpc'[c] # "lock")
          => (hpc'[c] = "decode" /\ Mutex' = Free /\ UNCHANGED regVars)]_vars

\* C8: a message without the heartbeat field leaves the registry and the
\* lock as they were and does not end the process; the handler reads the
\* next message.
C8_NoHeartbeatIgnored ==
    [][\A c \in Conns, m \in Msgs :
          (HbDecode(c, m) /\ ~request'[c].hb)
          => (Mutex' = Mutex /\ fatal' = NoFatal /\ UNCHANGED regVars
                /\ hpc'[c] = "decode")]_vars

\* C9: no task waits for the registry lock forever: the lock is never held
\* while its holder is outside its critical section and every other task is
\* finished or waiting for the lock.
C9_NoTaskBlockedForever ==
    ~ /\ Alive
      /\ Mutex # Free
      /\ ~InCS(Mutex)
      /\ mpc = "sleep" /\ sleepLeft = 0
      /\ \A c \in Conns : hpc[c] \in {"lock", "done"}
      /\ \A r \in Reqs : rpc[r] \in {"idle", "getServer"}

\* C5: an entry leaves the registry only in a sweep of the Health Monitor
\* that finds now - LastHeartbeat > Timeout, and then its connection is
\* closed; the sweep removes every entry it finds stale from the map and
\* then from ServerKeys, and it ends only when it has looked at every entry.
C5_EvictExactlyStale ==
    [][/\ \A a \in Conns :
            (a \in DOMAIN Servers /\ a \notin DOMAIN Servers')
            => /\ Servers[a].sinceHeartbeat > Timeout
               /\ mpc = "range"
               /\ Servers[a].heartBeatConn \in closed'
               /\ mpc' = "rmkey" /\ cur' = a
       /\ \A a \in Conns :
            (mpc = "range" /\ a \in toVisit /\ a \notin toVisit'
               /\ a \in DOMAIN Servers /\ Servers[a].sinceHeartbeat > Timeout)
            => a \notin DOMAIN Servers'
       /\ (mpc = "rmkey" /\ mpc' # "rmkey") => cur \notin Range(ServerKeys')
       /\ (mpc = "range" /\ mpc' = "sleep") => toVisit \cap DOMAIN Servers = {}
      ]_vars

\* C6: a registered backend whose heartbeat connection has ended is
\* eventually removed from the registry (as long as the process lives).
C6_StoppedBackendEvicted ==
    \A c \in Conns :
        (hpc[c] = "done" /\ c \in DOMAIN Servers) ~> (c \notin DOMAIN Servers \/ ~Alive)

\* C3: while the registry does not change, no task is inside a critical
\* section and the registry holds n >= 1 backends, n consecutive getServer
\* calls return every registered backend, the call after them returns the
\* first again, and the calls follow the insertion order of ServerKeys.
C3_RoundRobinCycle ==
    LET n == Cardinality(DOMAIN Servers)
        s == WrapIndex(logStart, Len(ServerKeys))
    IN  (/\ logging = "dispatch" /\ Alive
         /\ \A t \in Tasks : ~InCS(t)
         /\ Range(ServerKeys) = DOMAIN Servers
         /\ n >= 1)
        => /\ Len(dispatchLog) >= n =>
                 Range(SubSeq(dispatchLog, 1, n)) = DOMAIN Servers
           /\ Len(dispatchLog) > n => dispatchLog[n + 1] = dispatchLog[1]
           /\ NoDuplicates(ServerKeys) =>
                 \A i \in 1..Len(dispatchLog) :
                    dispatchLog[i] = ServerKeys[((s + i - 1) % n) + 1]

\* C3 when every backend follows the heartbeat protocol (DispatchSpec): the
\* i-th call after a start at index s (0 when the index was past the end)
\* returns ServerKeys[(s + i - 1) mod n]; from index 0 with A then B
\* registered the calls return A, B, A.
C3_CycleUnderProtocol ==
    LET n == Len(ServerKeys)
        s == WrapIndex(logStart, n)
    IN  (logging = "dispatch" /\ Alive) =>
        /\ dispatchLog # <<>> => n >= 1
        /\ \A i \in 1..Len(dispatchLog) :
              dispatchLog[i] = ServerKeys[((s + i - 1) % n) + 1]
        /\ Len(dispatchLog) >= n =>
              /\ Range(SubSeq(dispatchLog, 1, n)) = Range(ServerKeys)
              /\ NoDuplicates(SubSeq(dispatchLog, 1, n))
        /\ Len(dispatchLog) > n => dispatchLog[n + 1] = dispatchLog[1]
        /\ (ServerKeys = <<1, 2>> /\ logStart = 0 /\ Len(dispatchLog) >= 3)
              => SubSeq(dispatchLog, 1, 3) = <<1, 2, 1>>

\* C3 under the protocol, reached: A then B registered, index 0, three calls
\* returned A, B, A.
C3_Witness ==
    /\ logging = "dispatch" /\ Alive
    /\ ServerKeys = <<1, 2>>
    /\ logStart = 0
    /\ dispatchLog = <<1, 2, 1>>

\* C4: getServer never fails: it returns nil exactly when ServerKeys is
\* empty, and otherwise an entry of the registry, the one at index 0 when
\* the index was past the end.
C4_GetServerNeverFails ==
    [][\A r \in Reqs :
          GetServer(r) =>
            /\ fatal' = NoFatal
            /\ IF ServerKeys = <<>>
               THEN reply'[r] = ErrNoServer
               ELSE /\ rpc'[r] = "dial"
                    /\ selected'[r] \in DOMAIN Servers
                    /\ RoundRobinIndex >= Len(ServerKeys) => selected'[r] = ServerKeys[1]
      ]_vars

\* C10: for one client request the handler dials at most as many times as
\* there were registered backends when it first called getServer.
C10_DialsBounded == \A r \in Reqs : dials[r] <= nAtStart[r]

\* ---------------------------------------------------------------- C11..C20
\* The position of `key` in ServerKeys (the first, as the sweep's search).
KeyIndex(keys, key) == CHOOSE i \in 1..Len(keys) : keys[i] = key

\* The key after `key` in the rotation over `keys`.
NextInRotation(keys, key) == keys[(KeyIndex(keys, key) % Len(keys)) + 1]

\* C11: with two or more backends registered and the registry unchanged
\* since the handler's last selection, a dial that fails with a network
\* error sends no envelope; the handler's next getServer returns the backend
\* after the failed one in the rotation, and a dial that connects then
\* answers the client with the backend's response.
C11_Failover ==
    [][\A r \in Reqs :
          /\ Dial(r, "OpError") => (reply'[r] = NoReply /\ rpc'[r] = "getServer")
          /\ (/\ GetServer(r)
              /\ dials[r] > 0
              /\ Len(ServerKeys) >= 2
              /\ dispatchLog # <<>>
              /\ dispatchLog[Len(dispatchLog)] = selected[r])
             => /\ selected'[r] = NextInRotation(ServerKeys, selected[r])
                /\ selected'[r] # selected[r]
                /\ rpc'[r] = "dial"
                /\ reply'[r] = NoReply
          /\ (Dial(r, "connected") /\ dials[r] > 0) => reply'[r] = Result
      ]_vars

\* C11 reached: A then B registered, the dial to A failed, B answered.
C11_Witness ==
    /\ logging = "dispatch" /\ Alive
    /\ ServerKeys = <<1, 2>>
    /\ dispatchLog = <<1, 2>>
    /\ \E r \in Reqs :
          rpc[r] = "done" /\ dials[r] = 2 /\ selected[r] = 2 /\ reply[r] = Result

\* C12: a request that finds the registry empty is answered with exactly
\* the error envelope "no server available": no backend is dialed, and the
\* handler returns, which closes the client connection.
C12_NoServerEnvelopeLowercase ==
    [][\A r \in Reqs :
          (GetServer(r) /\ ServerKeys = <<>> /\ dials[r] = 0)
          => /\ reply'[r] = "no server available"
             /\ dials'[r] = 0
             /\ rpc'[r] = "done"
      ]_vars

\* C12 as the code has it: the envelope's message is "No server available".
C12_NoServerEnvelope ==
    [][\A r \in Reqs :
          /\ (GetServer(r) /\ ServerKeys = <<>> /\ dials[r] = 0)
             => /\ reply'[r] = "No server available"
                /\ dials'[r] = 0
                /\ rpc'[r] = "done"
          /\ (rpc[r] = "done" /\ rpc'[r] # "done") => rpc'[r] = "idle"
      ]_vars

\* C12 reached: a request answered "No server available" with no dial made.
C12_Witness ==
    \E r \in Reqs :
        /\ rpc[r] = "done" /\ reply[r] = ErrNoServer /\ dials[r] = 0
        /\ ServerKeys = <<>> /\ Servers = <<>>

\* Scheduling of the request handlers: a handler that can take its next
\* step takes it, and a handler waiting in lb.Mutex.Lock() gets the lock if
\* it is free again and again.
ReqFairness ==
    \A r \in Reqs :
        /\ SF_vars(GetServer(r))
        /\ WF_vars(\E outcome \in DialOutcomes : Dial(r, outcome))
        /\ WF_vars(ReqReturn(r))

\* The load balancer with backends that follow the heartbeat protocol,
\* under the scheduling of the Go runtime.
DispatchFairSpec == Init /\ [][DispatchNext]_vars /\ HbFairness /\ ReqFairness

\* C13: every request that handleRequest has decoded is eventually answered
\* with an envelope (as long as the process lives and the dials made for it
\* stay under MaxDials).
C13_RequestAnswered ==
    \A r \in Reqs :
        (rpc[r] = "getServer")
            ~> (reply[r] # NoReply \/ dials[r] >= MaxDials \/ ~Alive)

\* C14: the load balancer closes a heartbeat connection at most once, and
\* no entry of the registry holds a connection that has been closed.
C14_ClosedExactlyOnce ==
    [][/\ \A a \in DOMAIN Servers :
             a \notin DOMAIN Servers' => Servers[a].heartBeatConn \notin closed
       /\ \A a \in DOMAIN Servers' : Servers'[a].heartBeatConn \notin closed'
      ]_vars

\* C15: as long as nothing has been evicted, the registry holds one entry
\* and one key per heartbeat address that registered, and the entry's
\* ServingAddress is the peer host of the heartbeat connection, a colon, and
\* the port of the connection's first message.
C15_OneEntryPerAddress ==
    (Alive /\ closed = {}) =>
        /\ NoDuplicates(ServerKeys)
        /\ Mutex = Free => Range(ServerKeys) = DOMAIN Servers
        /\ \A a \in DOMAIN Servers :
              /\ Servers[a].HeartbeatAddress = a
              /\ Servers[a].ServingAddress = PeerHost(a) \o <<":", StrPort>>

\* C16: a heartbeat applied for an address that is in the registry sets
\* that entry's timestamp and nothing else in the registry, whatever "port"
\* the message carries; ServingAddress and the connection of an entry never
\* change while the entry stays in the registry.
C16_RefreshOnlyTimestamp ==
    [][/\ \A c \in Conns :
             (hpc[c] = "lock" /\ c \in DOMAIN Servers /\ hpc'[c] # "lock")
             => /\ DOMAIN Servers' = DOMAIN Servers
                /\ Servers'[c] = [Servers[c] EXCEPT !.sinceHeartbeat = 0]
                /\ Servers'[c].IsHealthy
                /\ \A a \in DOMAIN Servers \ {c} : Servers'[a] = Servers[a]
                /\ UNCHANGED <<ServerKeys, RoundRobinIndex>>
                /\ hpc'[c] = "decode"
       /\ \A a \in DOMAIN Servers \cap DOMAIN Servers' :
             /\ Servers'[a].ServingAddress = Servers[a].ServingAddress
             /\ Servers'[a].heartBeatConn = Servers[a].heartBeatConn
      ]_vars

\* C16 reached: a registered backend's heartbeat that carried another
\* "port" has been applied, and the entry has the address of its creation.
C16_Witness ==
    \E c \in DOMAIN Servers :
        /\ Alive
        /\ hpc[c] = "decode"
        /\ request[c].port = NumPort
        /\ Servers[c].sinceHeartbeat = 0
        /\ Servers[c].ServingAddress = ServingAddressOf(c, StrPort)

\* C17: when a sweep ends (and the process lives), any two keys that were
\* in ServerKeys when the sweep took the lock and still are in ServerKeys
\* stand in the same order as then.
C17_SweepKeepsOrder ==
    [][(logging = "sweep" /\ mpc = "range" /\ mpc' = "sleep" /\ fatal' = NoFatal) =>
          \A a, b \in Range(keysAtLock) \cap Range(ServerKeys') :
             (KeyIndex(keysAtLock, a) < KeyIndex(keysAtLock, b))
                <=> (KeyIndex(ServerKeys', a) < KeyIndex(ServerKeys', b))
      ]_vars

\* C18: a decode failure ends the handler of that connection and nothing
\* else: the registry, the lock and the other tasks are as before; an entry
\* leaves the map, and a key leaves ServerKeys, only in a step of the sweep.
C18_DecodeErrorKeepsEntry ==
    [][/\ \A c \in Conns :
             (hpc[c] = "decode" /\ hpc'[c] = "done")
             => /\ UNCHANGED <<regVars, Mutex, fatal, closed, monVars, reqVars>>
                /\ \A d \in Conns \ {c} : hpc'[d] = hpc[d]
       /\ (\E a \in DOMAIN Servers : a \notin DOMAIN Servers')
             => (mpc = "range" /\ mpc' = "rmkey")
       /\ Len(ServerKeys') < Len(ServerKeys) => mpc = "rmkey"
      ]_vars

\* C18 reached: the handler of a registered backend has ended on a decode
\* failure, and getServer has returned that backend's entry.
C18_Witness ==
    \E c \in Conns, r \in Reqs :
        /\ Alive
        /\ hpc[c] = "done"
        /\ c \in DOMAIN Servers /\ c \in Range(ServerKeys)
        /\ c \notin closed
        /\ rpc[r] = "dial" /\ selected[r] = c

JNum(big, off) == [type |-> "number", big |-> big, off |-> off]
JStr(str) == [type |-> "string", str |-> str]
JObj(fields) == [type |-> "object", fields |-> fields]

JNums == {JNum(big, off) : big \in BOOLEAN, off \in 0..MaxOff}

\* A JSON number decoded into interface{} becomes a float64: above 2^53 an
\* odd integer is rounded to the neighbour whose mantissa is even.
Float64Of(n) ==
    IF ~n.big \/ n.off % 2 = 0
    THEN n
    ELSE JNum(TRUE, IF n.off % 4 = 1 THEN n.off - 1 ELSE n.off + 1)

\* Decode into map[string]interface{}: objects become maps, numbers float64.
RECURSIVE UnmarshalValue(_)
UnmarshalValue(v) ==
    CASE v.type = "number" -> Float64Of(v)
      [] v.type = "object" ->
            JObj([k \in DOMAIN v.fields |-> UnmarshalValue(v.fields[k])])
      [] OTHER -> v

\* Encode of a map[string]interface{}: every key of the map is written; a
\* float64 that is an integer is written with all its digits.
RECURSIVE MarshalValue(_)
MarshalValue(v) ==
    CASE v.type = "object" ->
            JObj([k \in DOMAIN v.fields |-> MarshalValue(v.fields[k])])
      [] OTHER -> v

\* The envelopes a client may write: {"method": m, "params": {"a": x, "b": y}}.
Requests ==
    {JObj([method |-> JStr(m), params |-> JObj([a |-> x, b |-> y])]) :
        m \in {"Add", "Sub"}, x \in JNums, y \in JNums}

\* The envelopes HandleConnection writes: {"result": <float64>} or an error.
BackendResponses ==
    {JObj([result |-> Float64Of(n)]) : n \in JNums}
        \cup {JObj([error |-> JStr("Invalid RPC Call Method")])}

\* handleRequest decodes the client's envelope into `request` and
\* relayJSON encodes that map to the backend it has connected to.
RelayRequest ==
    /\ relayStage = "decode"
    /\ backendGot' = MarshalValue(UnmarshalValue(clientSent))
    /\ relayStage' = "relayed"
    /\ UNCHANGED <<regVars, Mutex, fatal, hbVars, closed, monVars, logVars, sysVars,
                   rpc, selected, dials, nAtStart, reply, handlerVars,
                   clientSent, backendSent, clientGot>>

\* The backend's HandleConnection writes its response.
BackendAnswers(resp) ==
    /\ relayStage = "relayed"
    /\ backendSent' = resp
    /\ relayStage' = "answered"
    /\ UNCHANGED <<regVars, Mutex, fatal, hbVars, closed, monVars, logVars, sysVars,
                   rpc, selected, dials, nAtStart, reply, handlerVars,
                   clientSent, backendGot, clientGot>>

\* receiveJSON decodes the backend's envelope into `response` and
\* clientEncoder.Encode(response) writes that map to the client.
RelayResponse ==
    /\ relayStage = "answered"
    /\ clientGot' = MarshalValue(UnmarshalValue(backendSent))
    /\ relayStage' = "done"
    /\ UNCHANGED <<regVars, Mutex, fatal, hbVars, closed, monVars, logVars, sysVars,
                   rpc, selected, dials, nAtStart, reply, handlerVars,
                   clientSent, backendGot, backendSent>>

\* One request relayed to a backend that has accepted the connection.
InitRelay ==
    /\ Servers = <<>>
    /\ ServerKeys = <<>>
    /\ RoundRobinIndex = 0
    /\ Mutex = Free
    /\ fatal = NoFatal
    /\ hpc = [c \in AllConns |-> "idle"]
    /\ request = [c \in AllConns |-> NilRequest]
    /\ closed = {}
    /\ mpc = "sleep"
    /\ sleepLeft = Timeout
    /\ toVisit = {}
    /\ cur = NoConn
    /\ rpc = [r \in Reqs |-> "idle"]
    /\ selected = [r \in Reqs |-> NoConn]
    /\ dials = [r \in Reqs |-> 0]
    /\ nAtStart = [r \in Reqs |-> 0]
    /\ reply = [r \in Reqs |-> NoReply]
    /\ logging = "off"
    /\ dispatchLog = <<>>
    /\ logStart = 0
    /\ keysAtLock = <<>>
    /\ relayStage = "decode"
    /\ clientSent \in Requests
    /\ backendGot = NoEnvelope
    /\ backendSent = NoEnvelope
    /\ clientGot = NoEnvelope
    /\ SysInit

RelayNext ==
    \/ RelayRequest
    \/ \E resp \in BackendResponses : BackendAnswers(resp)
    \/ RelayResponse

RelaySpec == InitRelay /\ [][RelayNext]_vars

\* C20: the envelope the backend receives has the keys and values of the
\* envelope the client sent, and the envelope the client receives has the
\* keys and values of the envelope the backend returned.
C20_RelayRoundTrip ==
    /\ relayStage \in {"relayed", "answered", "done"} => backendGot = clientSent
    /\ relayStage = "done" => clientGot = backendSent

\* ------------------------------------------------------------------ rejoin
\* Connection c registers after an eviction: the load balancer has closed
\* some heartbeat connection, and c is not one of those.
Rejoins(c) == closed # {} /\ c \notin closed

\* A peer that connects to the heartbeat port and sends {"heartbeat": true}
\* with no "port", as a first message.
PortlessHeartbeat == [hb |-> TRUE, port |-> NoPort]

StrangerNext ==
    \/ HbAccept(Stranger)
    \/ HbDecode(Stranger, PortlessHeartbeat)
    \/ HbNoPort(Stranger)

\* The load balancer with backends that follow the heartbeat protocol, one
\* peer that does not, and clients.
RejoinNext == DispatchNext \/ StrangerNext

\* Clients keep connecting: ListenForRequests accepts again and again.
ClientsKeepCalling == \A r \in Reqs : WF_vars(ReqAccept(r))

\* The same under the scheduling of the Go runtime.
RejoinFairSpec ==
    /\ Init /\ [][RejoinNext]_vars
    /\ HbFairness /\ SF_vars(HbNoPort(Stranger))
    /\ ReqFairness /\ ClientsKeepCalling

\* Without that peer: every heartbeat connection sends its port first.
RejoinProtocolFairSpec == DispatchFairSpec /\ ClientsKeepCalling

\* C21, the registration: the first heartbeat of a connection that comes
\* after an eviction appends its address at the end of ServerKeys and
\* leaves the entry of a first-time join in the map.
C21_RejoinAppends ==
    [][\A c \in Conns :
          (Rejoins(c) /\ hpc[c] = "append" /\ hpc'[c] = "decode") =>
              /\ ServerKeys' = Append(ServerKeys, c)
              /\ c \in DOMAIN Servers'
              /\ Servers'[c].HeartbeatAddress = c
              /\ Servers'[c].heartBeatConn = c
              /\ Servers'[c].ServingAddress = ServingAddressOf(c, StrPort)
      ]_vars

\* C21: a backend that has rejoined on connection c is eventually returned
\* by getServer, unless its heartbeats stop (its entry is evicted), the
\* process dies, or a request has used up the dials followed for it.
C21_RejoinSelected ==
    \A c \in Conns :
        (Rejoins(c) /\ c \in DOMAIN Servers /\ c \in Range(ServerKeys))
            ~> \/ \E r \in Reqs : selected[r] = c
               \/ c \notin DOMAIN Servers
               \/ ~Alive
               \/ \E r \in Reqs : rpc[r] = "dial" /\ dials[r] >= MaxDials

\* ---------------------------------------------------------------- shutdown
\* main: SIGINT or SIGTERM arrives; the context is cancelled and main goes
\* on from <-ctx.Done() to <-time.After(500 * time.Millisecond).  Nothing
\* tells the accept loops, the monitor or the handlers.
Signal ==
    /\ Alive
    /\ mainpc = "run"
    /\ mainpc' = "grace"
    /\ UNCHANGED <<regVars, Mutex, fatal, hbVars, closed, monVars, reqVars, logVars,
                   backendVars, clientVars>>

\* main: the 500 ms are over; main returns and the process ends with all
\* its goroutines.
GraceOver ==
    /\ Alive
    /\ mainpc = "grace"
    /\ mainpc' = "exited"
    /\ UNCHANGED <<regVars, Mutex, fatal, hbVars, closed, monVars, reqVars, logVars,
                   backendVars, clientVars>>

\* The load balancer, backends that follow the heartbeat protocol, clients,
\* and the signal.
ShutdownNext == DispatchNext \/ Signal \/ GraceOver

ShutdownSpec == Init /\ [][ShutdownNext]_vars

\* main's timer fires.
ShutdownFairSpec == ShutdownSpec /\ WF_vars(GraceOver)

\* C22: after the signal no accept loop starts a handler: no
\* handleHeartbeat task and no handleRequest task leaves its initial
\* position once main has left <-ctx.Done().
C22_NoAcceptAfterSignal ==
    [][mainpc # "run" =>
          /\ \A c \in Conns : hpc[c] = "idle" => hpc'[c] = "idle"
          /\ \A r \in Reqs : rpc[r] = "idle" => rpc'[r] = "idle"
      ]_vars

\* C22, the termination: after the signal the process ends.
C22_ExitsAfterGrace == (mainpc = "grace") ~> (mainpc = "exited" \/ fatal # NoFatal)

\* C22, the end: once main has returned nothing runs.
C22_NothingAfterExit == [][mainpc = "exited" => UNCHANGED vars]_vars

\* ------------------------------------------------- handleRequest, step by step
ErrDecode == "Error in decoding the request"
ErrRelay == "Error in relaying request to server"
ErrReceive == "Error in receiving response from server"
ErrorEnvelopes == {ErrDecode, ErrNoServer, ErrConnect, ErrRelay, ErrReceive}

\* clientDecoder.Decode(&request) fails: sendError and return.
ClientDecodeError(r) ==
    /\ Alive
    /\ rpc[r] = "idle"
    /\ rpc' = [rpc EXCEPT ![r] = "done"]
    /\ reply' = [reply EXCEPT ![r] = ErrDecode]
    /\ written' = [written EXCEPT ![r] = @ + 1]
    /\ UNCHANGED <<regVars, Mutex, fatal, hbVars, closed, monVars, selected, dials,
                   nAtStart, openCount, logVars, relayVars, sysVars>>

\* net.Dial returns a connection: "defer serverConn.Close()" is registered
\* and the handler goes on to relayJSON.
DialConnects(r) ==
    /\ Alive
    /\ rpc[r] = "dial"
    /\ dials[r] < MaxDials
    /\ dials' = [dials EXCEPT ![r] = @ + 1]
    /\ openCount' = [openCount EXCEPT ![r] = @ + 1]
    /\ rpc' = [rpc EXCEPT ![r] = "relay"]
    /\ UNCHANGED <<regVars, Mutex, fatal, hbVars, closed, monVars, selected, nAtStart,
                   reply, written, logVars, relayVars, sysVars>>

\* RelayRequestStep as it would be if a failed relay were reported and the
\* handler went on to receiveJSON all the same.
RelayRequestStepGoesOn(r, ok) ==
    /\ Alive
    /\ rpc[r] = "relay"
    /\ rpc' = [rpc EXCEPT ![r] = "receive"]
    /\ IF ok
       THEN UNCHANGED <<reply, written>>
       ELSE /\ reply' = [reply EXCEPT ![r] = ErrRelay]
            /\ written' = [written EXCEPT ![r] = @ + 1]
    /\ UNCHANGED <<regVars, Mutex, fatal, hbVars, closed, monVars, selected, dials,
                   nAtStart, openCount, logVars, relayVars, sysVars>>

\* relayJSON(request, serverConn): on an error sendError and return.
RelayRequestStep(r, ok) ==
    /\ Alive
    /\ rpc[r] = "relay"
    /\ IF ok
       THEN /\ rpc' = [rpc EXCEPT ![r] = "receive"]
            /\ UNCHANGED <<reply, written>>
       ELSE /\ rpc' = [rpc EXCEPT ![r] = "done"]
            /\ reply' = [reply EXCEPT ![r] = ErrRelay]
            /\ written' = [written EXCEPT ![r] = @ + 1]
    /\ UNCHANGED <<regVars, Mutex, fatal, hbVars, closed, monVars, selected, dials,
                   nAtStart, openCount, logVars, relayVars, sysVars>>

\* receiveJSON(&response, serverConn): on an error sendError and return,
\* otherwise clientEncoder.Encode(response).
ReceiveResponseStep(r, ok) ==
    /\ Alive
    /\ rpc[r] = "receive"
    /\ rpc' = [rpc EXCEPT ![r] = "done"]
    /\ reply' = [reply EXCEPT ![r] = IF ok THEN Result ELSE ErrReceive]
    /\ written' = [written EXCEPT ![r] = @ + 1]
    /\ UNCHANGED <<regVars, Mutex, fatal, hbVars, closed, monVars, selected, dials,
                   nAtStart, openCount, logVars, relayVars, sysVars>>

\* The load balancer with every path of handleRequest.
HandlerNext ==
    \/ DispatchNext
    \/ \E r \in Reqs : ClientDecodeError(r)
    \/ \E r \in Reqs : DialConnects(r)
    \/ \E r \in Reqs, ok \in BOOLEAN : RelayRequestStep(r, ok)
    \/ \E r \in Reqs, ok \in BOOLEAN : ReceiveResponseStep(r, ok)

HandlerSpec == Init /\ [][HandlerNext]_vars

\* C23: a handler has no backend connection before its dial succeeds and
\* after it has returned, and exactly one from the successful dial to its
\* return, whatever relayJSON and receiveJSON give; a failed dial opens none.
C23_OneBackendConn ==
    \A r \in Reqs :
        /\ openCount[r] <= 1
        /\ rpc[r] \in {"idle", "getServer", "dial"} => openCount[r] = 0
        /\ rpc[r] \in {"relay", "receive"} => openCount[r] = 1
        /\ (rpc[r] = "done" /\ reply[r] \in {Result, ErrRelay, ErrReceive})
              => openCount[r] = 1
        /\ (rpc[r] = "done" /\ reply[r] \in {ErrDecode, ErrNoServer, ErrConnect})
              => openCount[r] = 0

\* C23, reached: a dial failed, the next one succeeded, receiveJSON failed
\* and the handler is about to return with one connection to close.
C23_Witness ==
    \E r \in Reqs :
        /\ rpc[r] = "done" /\ reply[r] = ErrReceive
        /\ dials[r] = 2 /\ openCount[r] = 1

\* C25: a handler writes at most one envelope to its client, and once it
\* has written an error envelope its only step is to return.
C25_AtMostOneResponse ==
    [][\A r \in Reqs :
          /\ written'[r] <= 1
          /\ (written[r] >= 1 /\ reply[r] \in ErrorEnvelopes) =>
                \/ UNCHANGED <<rpc[r], selected[r], dials[r], openCount[r], written[r]>>
                \/ rpc'[r] = "idle" /\ written'[r] = 0
      ]_vars

\* C25, reached: a relay failure has been reported after a retried dial.
C25_Witness ==
    \E r \in Reqs :
        /\ rpc[r] = "done" /\ reply[r] = ErrRelay
        /\ dials[r] = 2 /\ written[r] = 1

\* ---------------------------------------------------------------- rotation
\* The same start, with each getServer call's result and the ServerKeys it
\* read recorded.
InitRotationLogging ==
    /\ Servers = <<>>
    /\ ServerKeys = <<>>
    /\ RoundRobinIndex = 0
    /\ Mutex = Free
    /\ fatal = NoFatal
    /\ hpc = [c \in AllConns |-> "idle"]
    /\ request = [c \in AllConns |-> NilRequest]
    /\ closed = {}
    /\ mpc = "sleep"
    /\ sleepLeft = Timeout
    /\ toVisit = {}
    /\ cur = NoConn
    /\ rpc = [r \in Reqs |-> "idle"]
    /\ selected = [r \in Reqs |-> NoConn]
    /\ dials = [r \in Reqs |-> 0]
    /\ nAtStart = [r \in Reqs |-> 0]
    /\ reply = [r \in Reqs |-> NoReply]
    /\ logging = "rotation"
    /\ dispatchLog = <<>>
    /\ logStart = 0
    /\ keysAtLock = <<>>
    /\ relayStage = "off"
    /\ clientSent = NoEnvelope
    /\ backendGot = NoEnvelope
    /\ backendSent = NoEnvelope
    /\ clientGot = NoEnvelope
    /\ SysInit

\* What every message of a backend that runs SendHeartbeats decodes to:
\* the first carries "port", and the map keeps it for the later ones.
ProtocolHeartbeat == [hb |-> TRUE, port |-> StrPort]

\* ln.Accept() returns the connections in the order they are numbered.
HbAcceptInOrder(c) ==
    /\ \A b \in AllConns : b < c => hpc[b] # "idle"
    /\ HbAccept(c)

\* A heartbeat read from a connection the load balancer has not closed.
HbProtocolHeartbeat(c) ==
    /\ c \notin closed
    /\ HbDecode(c, ProtocolHeartbeat)

\* Three backends that send heartbeats until they stop, the monitor, and
\* clients whose dial connects.
RotationNext ==
    \/ \E c \in AllConns : HbAcceptInOrder(c)
    \/ \E c \in AllConns : HbProtocolHeartbeat(c)
    \/ \E c \in AllConns : HbRefresh(c)
    \/ \E c \in AllConns : HbInsert(c)
    \/ \E c \in AllConns : HbAppend(c)
    \/ MonLock
    \/ \E a \in AllConns : MonVisit(a)
    \/ MonRemoveKey
    \/ MonUnlock
    \/ Tick
    \/ \E r \in Reqs : ReqAccept(r)
    \/ \E r \in Reqs : GetServer(r)
    \/ \E r \in Reqs : Dial(r, "connected")
    \/ \E r \in Reqs : ReqReturn(r)

RotationSpec == InitRotationLogging /\ [][RotationNext]_vars

\* s is t with some elements left out, the order kept.
RECURSIVE IsSubSeq(_, _)
IsSubSeq(s, t) ==
    IF s = <<>> THEN TRUE
    ELSE IF t = <<>> THEN FALSE
    ELSE IF Head(s) = Head(t) THEN IsSubSeq(Tail(s), Tail(t))
    ELSE IsSubSeq(s, Tail(t))

\* The first key after `key` in the rotation order `keys`, going round,
\* that is in `survivors`.
NextSurvivor(keys, key, survivors) ==
    LET n == Len(keys)
        p == KeyIndex(keys, key)
        d == CHOOSE i \in 1..n :
                /\ keys[((p + i - 1) % n) + 1] \in survivors
                /\ \A j \in 1..(i - 1) : keys[((p + j - 1) % n) + 1] \notin survivors
    IN  keys[((p + d - 1) % n) + 1]

\* C24: when sweeps have removed entries since the last getServer call and
\* nothing else has changed ServerKeys, the next call returns the survivor
\* that follows the last returned backend in the rotation order.
C24_RotationContinues ==
    [][\A r \in Reqs :
          (/\ logging = "rotation"
           /\ rpc[r] = "getServer" /\ rpc'[r] = "dial"
           /\ prevKeys # <<>>
           /\ NoDuplicates(prevKeys)
           /\ Len(ServerKeys) < Len(prevKeys)
           /\ IsSubSeq(ServerKeys, prevKeys))
          => selected'[r] = NextSurvivor(prevKeys, prevKey, Range(ServerKeys))
      ]_vars

\* ----------------------------------------------------------------- messages
\* The same start, with the object each heartbeat handler decoded last
\* recorded.
InitMessageLogging ==
    /\ Servers = <<>>
    /\ ServerKeys = <<>>
    /\ RoundRobinIndex = 0
    /\ Mutex = Free
    /\ fatal = NoFatal
    /\ hpc = [c \in AllConns |-> "idle"]
    /\ request = [c \in AllConns |-> NilRequest]
    /\ closed = {}
    /\ mpc = "sleep"
    /\ sleepLeft = Timeout
    /\ toVisit = {}
    /\ cur = NoConn
    /\ rpc = [r \in Reqs |-> "idle"]
    /\ selected = [r \in Reqs |-> NoConn]
    /\ dials = [r \in Reqs |-> 0]
    /\ nAtStart = [r \in Reqs |-> 0]
    /\ reply = [r \in Reqs |-> NoReply]
    /\ logging = "message"
    /\ dispatchLog = <<>>
    /\ logStart = 0
    /\ keysAtLock = <<>>
    /\ relayStage = "off"
    /\ clientSent = NoEnvelope
    /\ backendGot = NoEnvelope
    /\ backendSent = NoEnvelope
    /\ clientGot = NoEnvelope
    /\ SysInit

\* The heartbeat side alone, with that record.
HbMessageSpec == InitMessageLogging /\ [][HbNext]_vars

\* C26: a heartbeat handler refreshes its entry only when the object it has
\* just decoded has "heartbeat", and registers only with the "port" of the
\* object it has just decoded.
C26_PerMessageValidity ==
    [][\A c \in Conns :
          /\ (/\ hpc[c] = "lock" /\ hpc'[c] = "decode"
              /\ c \in DOMAIN Servers /\ c \in DOMAIN Servers'
              /\ Servers'[c].sinceHeartbeat = 0)
                => lastMsg[c].hb
          /\ (c \notin DOMAIN Servers /\ c \in DOMAIN Servers')
                => /\ lastMsg[c].hb
                   /\ lastMsg[c].port # NoPort
                   /\ Servers'[c].ServingAddress = ServingAddressOf(c, lastMsg[c].port)
      ]_vars

\* C26, the refresh alone: the first half of the claim.
C26_RefreshNeedsHeartbeat ==
    [][\A c \in Conns :
          (/\ hpc[c] = "lock" /\ hpc'[c] = "decode"
           /\ c \in DOMAIN Servers /\ c \in DOMAIN Servers'
           /\ Servers'[c].sinceHeartbeat = 0)
             => lastMsg[c].hb
      ]_vars

\* C26, the registration alone: the second half of the claim.
C26_PortOfThisMessage ==
    [][\A c \in Conns :
          (c \notin DOMAIN Servers /\ c \in DOMAIN Servers')
             => lastMsg[c].port # NoPort
      ]_vars

\* ------------------------------------------------------------ backend server
\* What the backend's actions leave alone: the load balancer and the client.
lbVars == <<regVars, Mutex, fatal, hbVars, closed, monVars, reqVars, logVars, mainVars,
           clientVars>>

\* The backend process runs until its main returns.
ServerRuns == serverMain # "stopped"

\* SendHeartbeats: net.Dial to the load balancer.  On an error it goes to
\* "lbDown <- struct{}{}".
SendHeartbeatsDial(ok) ==
    /\ ServerRuns
    /\ sendHb = "dial"
    /\ sendHb' = IF ok THEN "first" ELSE "signal"
    /\ UNCHANGED <<lbVars, serverMain, stopChan, lbDownSent, ctxCancelled, lnOpen,
                   acceptLoop, beats, served>>

\* SendHeartbeats: encoder.Encode(request), the first time with "port",
\* then in the loop.  On an error it goes to "lbDown <- struct{}{}".
SendHeartbeatsEncode(ok) ==
    /\ ServerRuns
    /\ sendHb \in {"first", "loop"}
    /\ ok => beats < MaxBeats
    /\ sendHb' = IF ok THEN "loop" ELSE "signal"
    /\ beats' = IF ok THEN beats + 1 ELSE beats
    /\ UNCHANGED <<lbVars, serverMain, stopChan, lbDownSent, ctxCancelled, lnOpen,
                   acceptLoop, served>>

\* LbDownHandoff as it would be if SendHeartbeats went back to its loop
\* after the send instead of returning.
LbDownHandoffGoesOn ==
    /\ sendHb = "signal"
    /\ serverMain = "select"
    /\ lbDownSent' = lbDownSent + 1
    /\ sendHb' = "loop"
    /\ serverMain' = "cancel"
    /\ UNCHANGED <<lbVars, stopChan, ctxCancelled, lnOpen, acceptLoop, beats, served>>

\* lbDown is unbuffered: the send of SendHeartbeats and the receive of
\* main's select happen together.  SendHeartbeats returns, main goes on.
LbDownHandoff ==
    /\ sendHb = "signal"
    /\ serverMain = "select"
    /\ lbDownSent' = lbDownSent + 1
    /\ sendHb' = "returned"
    /\ serverMain' = "cancel"
    /\ UNCHANGED <<lbVars, stopChan, ctxCancelled, lnOpen, acceptLoop, beats, served>>

\* SIGINT or SIGTERM: signal.Notify puts it in the channel stop (buffer 1).
StopSignal ==
    /\ ServerRuns
    /\ ~stopChan
    /\ stopChan' = TRUE
    /\ UNCHANGED <<lbVars, serverMain, sendHb, lbDownSent, ctxCancelled, lnOpen,
                   acceptLoop, beats, served>>

\* main's select takes the case <-stop.
MainStop ==
    /\ serverMain = "select"
    /\ stopChan
    /\ stopChan' = FALSE
    /\ serverMain' = "cancel"
    /\ UNCHANGED <<lbVars, sendHb, lbDownSent, ctxCancelled, lnOpen, acceptLoop,
                   beats, served>>

\* main: cancel(), then <-time.After(1 * time.Second).
MainCancel ==
    /\ serverMain = "cancel"
    /\ ctxCancelled' = TRUE
    /\ serverMain' = "wait"
    /\ UNCHANGED <<lbVars, sendHb, stopChan, lbDownSent, lnOpen, acceptLoop, beats, served>>

\* main: the second is over, ln.Close().
MainClose ==
    /\ serverMain = "wait"
    /\ lnOpen' = FALSE
    /\ serverMain' = "close"
    /\ UNCHANGED <<lbVars, sendHb, stopChan, lbDownSent, ctxCancelled, acceptLoop,
                   beats, served>>

\* main returns: the process ends with all its goroutines.
MainReturn ==
    /\ serverMain = "close"
    /\ serverMain' = "stopped"
    /\ UNCHANGED <<lbVars, sendHb, stopChan, lbDownSent, ctxCancelled, lnOpen,
                   acceptLoop, beats, served>>

\* The accept loop: ln.Accept() returns a connection and
\* "go stub.HandleConnection(conn)".
ServerAccept ==
    /\ ServerRuns
    /\ acceptLoop = "accept"
    /\ lnOpen
    /\ served < MaxServed
    /\ served' = served + 1
    /\ UNCHANGED <<lbVars, serverMain, sendHb, stopChan, lbDownSent, ctxCancelled,
                   lnOpen, acceptLoop, beats>>

\* The accept loop: ln.Accept() fails on the closed listener and the
\* context is done: return.
ServerAcceptStops ==
    /\ ServerRuns
    /\ acceptLoop = "accept"
    /\ ~lnOpen
    /\ ctxCancelled
    /\ acceptLoop' = "returned"
    /\ UNCHANGED <<lbVars, serverMain, sendHb, stopChan, lbDownSent, ctxCancelled,
                   lnOpen, beats, served>>

BackendNext ==
    \/ \E ok \in BOOLEAN : SendHeartbeatsDial(ok)
    \/ \E ok \in BOOLEAN : SendHeartbeatsEncode(ok)
    \/ LbDownHandoff
    \/ StopSignal
    \/ MainStop
    \/ MainCancel
    \/ MainClose
    \/ MainReturn
    \/ ServerAccept
    \/ ServerAcceptStops

\* The backend server under the scheduling of the Go runtime: main takes
\* its steps, and a send on lbDown meets a main that waits in the select.
\* Signals and failures are up to the environment.
BackendFairSpec ==
    /\ Init /\ [][BackendNext]_vars
    /\ WF_vars(LbDownHandoff \/ MainStop)
    /\ WF_vars(MainCancel) /\ WF_vars(MainClose) /\ WF_vars(MainReturn)

\* C27, the state part: lbDown carries at most one value, SendHeartbeats has
\* returned exactly when it has been received, and a main that has left the
\* select has cancelled the context and closed the listener by the time it
\* stops.
C27_State ==
    /\ lbDownSent <= 1
    /\ sendHb = "returned" <=> lbDownSent = 1
    /\ lbDownSent = 1 => serverMain # "select"
    /\ serverMain \in {"wait", "close", "stopped"} => ctxCancelled
    /\ serverMain \in {"close", "stopped"} => ~lnOpen
    /\ acceptLoop = "returned" => ctxCancelled /\ ~lnOpen

\* C27: when SendHeartbeats cannot dial or write, it signals lbDown once
\* and returns and main cancels and stops, unless main's select took the
\* stop signal; and when the stop signal is there main stops, whatever
\* SendHeartbeats does.
C27_BackendShutdown ==
    /\ []C27_State
    /\ (sendHb = "signal") ~> (serverMain = "stopped")
    /\ (sendHb = "signal" /\ ~stopChan /\ serverMain = "select")
          ~> (stopChan \/ (sendHb = "returned" /\ lbDownSent = 1))
    /\ stopChan ~> (serverMain = "stopped")

\* C27, reached: a heartbeat write failed after the first heartbeats, the
\* signal was delivered, and main stopped.
C27_Witness ==
    /\ serverMain = "stopped" /\ sendHb = "returned" /\ lbDownSent = 1
    /\ beats >= 1 /\ ctxCancelled /\ ~lnOpen

\* C27, reached the other way: main stopped on the stop signal while
\* SendHeartbeats still waits to send on lbDown.
C27_WitnessStop ==
    serverMain = "stopped" /\ sendHb = "signal" /\ lbDownSent = 0

\* ---------------------------------------------------------------- client stub
ErrLbDown == "Load balancer is down"
ErrTls == "tls: handshake failure"     \* err.Error() of a dial error that is no *net.OpError
NilError == "<nil>"
MinusOne == [type |-> "number", big |-> FALSE, off |-> -1]

\* A map with no key: the nil map callRPC returns when decoder.Decode has
\* failed, for instance because the load balancer closed the connection.
NilMap == JObj(<<>>)

\* What a client can read from the load balancer: one of its error
\* envelopes, or the envelope of a backend.
ClientResponses ==
    {JObj([error |-> JStr(e)]) : e \in ErrorEnvelopes} \cup BackendResponses

\* What the load balancer and the client leave to the client's actions.
notClientVars == <<regVars, Mutex, fatal, hbVars, closed, monVars, reqVars, logVars,
                   mainVars, backendVars>>

\* A generated method stub is called: it builds params and calls callRPC.
StubCall(req) ==
    /\ stubpc = "idle"
    /\ stubpc' = "dial"
    /\ stubRequest' = req
    /\ UNCHANGED <<notClientVars, stubSent, dialResult, stubResponse, stubReturn>>

\* callRPC: tls.Dial.  On an error it returns {"error": ...} at once, with
\* "Load balancer is down" for a *net.OpError.
CallRPCDial(outcome) ==
    /\ stubpc = "dial"
    /\ dialResult' = outcome
    /\ IF outcome = "connected"
       THEN /\ stubpc' = "encode"
            /\ UNCHANGED stubResponse
       ELSE /\ stubpc' = "check"
            /\ stubResponse' = JObj([error |->
                                  JStr(IF outcome = "OpError" THEN ErrLbDown ELSE ErrTls)])
    /\ UNCHANGED <<notClientVars, stubRequest, stubSent, stubReturn>>

\* callRPC: encoder.Encode(request); its error is not looked at.
CallRPCEncode ==
    /\ stubpc = "encode"
    /\ stubSent' = TRUE
    /\ stubpc' = "decode"
    /\ UNCHANGED <<notClientVars, stubRequest, dialResult, stubResponse, stubReturn>>

\* callRPC: decoder.Decode(&response) reads an envelope, numbers as
\* float64, and callRPC returns the map.
CallRPCDecode(resp) ==
    /\ stubpc = "decode"
    /\ stubResponse' = UnmarshalValue(resp)
    /\ stubpc' = "check"
    /\ UNCHANGED <<notClientVars, stubRequest, stubSent, dialResult, stubReturn>>

\* callRPC: decoder.Decode(&response) fails; its error is not looked at
\* and callRPC returns the map as it is, nil.
CallRPCDecodeError ==
    /\ stubpc = "decode"
    /\ stubResponse' = NilMap
    /\ stubpc' = "check"
    /\ UNCHANGED <<notClientVars, stubRequest, stubSent, dialResult, stubReturn>>

\* The method stub: with "error" in the map it returns -1 and
\* errors.New(response["error"].(string)); otherwise it returns
\* response["result"].(float64) and a nil error.  A type assertion on a
\* value of another type, or on a missing key, panics.
StubReturn ==
    /\ stubpc = "check"
    /\ LET fields == stubResponse.fields IN
       IF "error" \in DOMAIN fields
       THEN IF fields["error"].type = "string"
            THEN /\ stubpc' = "returned"
                 /\ stubReturn' = [type |-> "return", value |-> MinusOne,
                                   err |-> fields["error"].str]
            ELSE /\ stubpc' = "panicked"
                 /\ UNCHANGED stubReturn
       ELSE IF "result" \in DOMAIN fields /\ fields["result"].type = "number"
            THEN /\ stubpc' = "returned"
                 /\ stubReturn' = [type |-> "return", value |-> fields["result"],
                                   err |-> NilError]
            ELSE /\ stubpc' = "panicked"
                 /\ UNCHANGED stubReturn
    /\ UNCHANGED <<notClientVars, stubRequest, stubSent, dialResult, stubResponse>>

ClientNext ==
    \/ \E req \in Requests : StubCall(req)
    \/ \E outcome \in DialOutcomes : CallRPCDial(outcome)
    \/ CallRPCEncode
    \/ \E resp \in ClientResponses : CallRPCDecode(resp)
    \/ CallRPCDecodeError
    \/ StubReturn

ClientSpec == Init /\ [][ClientNext]_vars

\* The call of the method stub is over.
StubOver == stubpc \in {"returned", "panicked"}

\* C28: a dial that fails with a network error makes callRPC return
\* {"error": "Load balancer is down"} with nothing sent; and the method stub
\* returns -1 and a non-nil error when the map has "error", and a nil error
\* when it has not.
C28_StubErrorReporting ==
    /\ (stubpc \in {"check", "returned", "panicked"} /\ dialResult = "OpError")
          => /\ stubResponse = JObj([error |-> JStr(ErrLbDown)])
             /\ ~stubSent
    /\ StubOver =>
          /\ stubpc = "returned"
          /\ IF "error" \in DOMAIN stubResponse.fields
             THEN stubReturn.err # NilError /\ stubReturn.value = MinusOne
             ELSE stubReturn.err = NilError

\* C28 for the calls in which callRPC has an envelope to return: a failed
\* dial, or a connection on which an envelope was read.
C28_WithEnvelope ==
    (StubOver /\ stubResponse # NilMap) => C28_StubErrorReporting

====
